---- MODULE Spec2Model ----
(***************************************************************************)
(* SpyderShell (spyder_kernels/console/shell.py): the namespace stack, the *)
(* persisted Pdb configuration, the SIGINT policy and run_code.            *)
(*                                                                         *)
(* Objects are modelled by identity: a debugger session is "pdb1", ... or  *)
(* "sigpdb1", ... (one constructed by the SIGINT handler), a namespace     *)
(* manager is "ns1", ...  A namespace (a dict) is modelled by where it     *)
(* comes from: <<"f_globals", f>>, <<"ns_globals", m>>, <<"user_ns", n>>,  *)
(* <<"f_locals", f>>, <<"curframe_locals", p>>, <<"ns_locals", m>>.        *)
(* _showtraceback, _do_input_cleanup and _get_current_namespace are        *)
(* applied to lines of characters and to dicts of names.                   *)
(***************************************************************************)
EXTENDS Integers, Sequences, FiniteSets, TLC

VARIABLES
    _namespace_stack,   \* self._namespace_stack: list of sessions
    __user_ns,          \* self.__user_ns: the fallback namespace
    _pdb_conf,          \* self._pdb_conf: dict key -> value
    _request_pdb_stop,  \* self._request_pdb_stop
    _allow_kbdint,      \* self._allow_kbdint
    curframe,           \* session.curframe of every SpyderPdb
    interrupting,       \* session.interrupting of every SpyderPdb
    allow_kbdint,       \* session.allow_kbdint of every SpyderPdb
    pdb_attrs,          \* attributes set on a SpyderPdb through setattr
    n_created,          \* SpyderPdb objects constructed by the SIGINT handler
    sigint_handler,     \* signal.getsignal(signal.SIGINT)
    sigint_pending,     \* a SIGINT was sent and its handler has not run yet
    req_pc,             \* position of the comm thread inside request_pdb_stop
    run_depth,          \* run_code calls in progress
    op,                 \* the operation that ran last and its arguments
    raised,             \* the exception the last operation ended with
    calls,              \* calls the last operation made on its collaborators
    io                  \* what the last operation was given and returned

vars ==
    <<_namespace_stack, __user_ns, _pdb_conf, _request_pdb_stop, _allow_kbdint,
      curframe, interrupting, allow_kbdint, pdb_attrs, n_created,
      sigint_handler, sigint_pending, req_pc, run_depth, op, raised, calls,
      io>>

(***************************************************************************)
(* Bounds of the model.                                                    *)
(***************************************************************************)
MaxStack == 3
MaxCreated == 1
MaxRunDepth == 2

(***************************************************************************)
(* The objects handed to the shell.                                        *)
(***************************************************************************)
Pdbs == {"pdb1", "pdb2"}
\* The sessions the SIGINT handler constructs, in the order of construction.
SigPdbNames == <<"sigpdb1", "sigpdb2", "sigpdb3", "sigpdb4">>
SigPdb(i) == SigPdbNames[i]
SigPdbs == {SigPdb(i) : i \in 1..MaxCreated}
AllPdbs == Pdbs \cup SigPdbs
Managers == {"ns1", "ns2"}
Frames == {"f1", "f2"}
None == "None"
NoSession == None
UserNamespaces == {"ns_a", "ns_b"}
NoException == "none"

CreatedPdbs == {SigPdb(i) : i \in 1..n_created}
\* The sessions at work in the interrupt policy: one started by the user
\* and those the SIGINT handler has constructed.
SigintPdbs == {"pdb1"} \cup CreatedPdbs

PDB_CONF_KEYS ==
    {"pdb_ignore_lib", "pdb_execute_events", "pdb_use_exclamation_mark",
     "pdb_stop_first_line", "breakpoints", "pdb_publish_stack"}

\* The keys and values the configurations handed to set_pdb_configuration
\* are drawn from; "pdb_prompt" is not a key of PDB_CONF_KEYS.
InputKeys == {"pdb_ignore_lib", "breakpoints", "pdb_prompt"}
ConfValues == BOOLEAN
InputConfs == UNION {[ks -> ConfValues] : ks \in SUBSET InputKeys}

ConfManagers == {"ns1"}

EmptyDict == [k \in {} |-> FALSE]

\* io before any operation that records its arguments and result: the
\* exception type and the lines given, and the lines returned or passed on;
\* the with_magics argument and the namespace returned.
NoIO ==
    [etype |-> None, lines |-> <<>>, out |-> <<>>, with_magics |-> FALSE,
     ns |-> EmptyDict]

IsPdb(session) == session \in AllPdbs
IsNamespaceManager(session) == session \in Managers

(***************************************************************************)
(* Scans of the stack from its end (self._namespace_stack[::-1]).          *)
(***************************************************************************)
RECURSIVE ScanPdbSession(_, _)
ScanPdbSession(stack, i) ==
    IF i = 0 THEN NoSession
    ELSE IF IsPdb(stack[i]) THEN stack[i]
    ELSE ScanPdbSession(stack, i - 1)

pdb_session(stack) == ScanPdbSession(stack, Len(stack))

RECURSIVE ScanIsDebugging(_, _)
ScanIsDebugging(stack, i) ==
    IF i = 0 THEN FALSE
    ELSE IF IsPdb(stack[i]) /\ curframe[stack[i]] # None THEN TRUE
    ELSE ScanIsDebugging(stack, i - 1)

is_debugging == ScanIsDebugging(_namespace_stack, Len(_namespace_stack))

\* user_ns without the test of curframe: every debugger session wins.
RECURSIVE ScanUserNsAnyPdb(_, _)
ScanUserNsAnyPdb(stack, i) ==
    IF i = 0 THEN <<"user_ns", __user_ns>>
    ELSE IF IsPdb(stack[i]) THEN <<"f_globals", curframe[stack[i]]>>
    ELSE IF IsNamespaceManager(stack[i]) THEN <<"ns_globals", stack[i]>>
    ELSE ScanUserNsAnyPdb(stack, i - 1)

\* user_ns in two passes: a stopped debugger anywhere on the stack wins
\* over every namespace manager.
ScanUserNsDebuggerFirst(stack, i) ==
    LET stopped == {k \in 1..i : IsPdb(stack[k]) /\ curframe[stack[k]] # None}
        managers == {k \in 1..i : IsNamespaceManager(stack[k])}
        last(S) == CHOOSE k \in S : \A j \in S : j <= k
    IN  IF stopped # {} THEN <<"f_globals", curframe[stack[last(stopped)]]>>
        ELSE IF managers # {} THEN <<"ns_globals", stack[last(managers)]>>
        ELSE <<"user_ns", __user_ns>>

RECURSIVE ScanUserNs(_, _)
ScanUserNs(stack, i) ==
    IF i = 0 THEN <<"user_ns", __user_ns>>
    ELSE IF IsPdb(stack[i]) /\ curframe[stack[i]] # None
         THEN <<"f_globals", curframe[stack[i]]>>
    ELSE IF IsNamespaceManager(stack[i])
         THEN <<"ns_globals", stack[i]>>
    ELSE ScanUserNs(stack, i - 1)

user_ns == ScanUserNs(_namespace_stack, Len(_namespace_stack))

\* context_locals returns None.
NoLocals == <<"None", None>>

\* context_locals without the test of frame for a namespace manager.
RECURSIVE ScanContextLocalsAnyManager(_, _, _)
ScanContextLocalsAnyManager(stack, i, frame) ==
    IF i = 0
    THEN IF frame # None THEN <<"f_locals", frame>> ELSE NoLocals
    ELSE IF IsPdb(stack[i]) /\ curframe[stack[i]] # None
         THEN IF frame = None \/ frame = curframe[stack[i]]
              THEN <<"curframe_locals", stack[i]>>
              ELSE ScanContextLocalsAnyManager(stack, i - 1, frame)
    ELSE IF IsNamespaceManager(stack[i])
         THEN <<"ns_locals", stack[i]>>
    ELSE ScanContextLocalsAnyManager(stack, i - 1, frame)

\* context_locals in two passes when no frame is given: a stopped debugger
\* anywhere on the stack wins over every namespace manager.
ScanContextLocalsDebuggerFirst(stack, i, frame) ==
    LET stopped == {k \in 1..i : IsPdb(stack[k]) /\ curframe[stack[k]] # None}
        same == {k \in stopped : curframe[stack[k]] = frame}
        managers == {k \in 1..i : IsNamespaceManager(stack[k])}
        last(S) == CHOOSE k \in S : \A j \in S : j <= k
    IN  IF frame # None
        THEN IF same # {} THEN <<"curframe_locals", stack[last(same)]>>
             ELSE <<"f_locals", frame>>
        ELSE IF stopped # {} THEN <<"curframe_locals", stack[last(stopped)]>>
        ELSE IF managers # {} THEN <<"ns_locals", stack[last(managers)]>>
        ELSE NoLocals

RECURSIVE ScanContextLocals(_, _, _)
ScanContextLocals(stack, i, frame) ==
    IF i = 0
    THEN IF frame # None THEN <<"f_locals", frame>> ELSE NoLocals
    ELSE IF IsPdb(stack[i]) /\ curframe[stack[i]] # None
         THEN IF frame = None \/ frame = curframe[stack[i]]
              THEN <<"curframe_locals", stack[i]>>
              ELSE ScanContextLocals(stack, i - 1, frame)
    ELSE IF frame = None /\ IsNamespaceManager(stack[i])
         THEN <<"ns_locals", stack[i]>>
    ELSE ScanContextLocals(stack, i - 1, frame)

context_locals(frame) ==
    ScanContextLocals(_namespace_stack, Len(_namespace_stack), frame)

(***************************************************************************)
(* set_pdb_configuration: the persisted configuration and the attributes   *)
(* of the active session after the loop over PDB_CONF_KEYS.                *)
(***************************************************************************)
StoredKeys(pdb_conf) == PDB_CONF_KEYS \cap DOMAIN pdb_conf

ConfAfterSet(conf, pdb_conf) ==
    [key \in DOMAIN conf \cup StoredKeys(pdb_conf) |->
        IF key \in StoredKeys(pdb_conf) THEN pdb_conf[key] ELSE conf[key]]

AttrsAfterSet(attrs, stack, pdb_conf) ==
    IF pdb_session(stack) = NoSession THEN attrs
    ELSE [attrs EXCEPT ![pdb_session(stack)] =
            [key \in DOMAIN @ \cup StoredKeys(pdb_conf) |->
                IF key \in StoredKeys(pdb_conf) THEN pdb_conf[key] ELSE @[key]]]

(***************************************************************************)
(* What an operation leaves behind: its name and argument, the exception   *)
(* it ended with and the calls it made; for add_pdb_session the stack it   *)
(* began with; and for a remove_pdb_session(p) that comes directly after   *)
(* add_pdb_session(p), the stack that add began with.                      *)
(***************************************************************************)
NoStack == <<>>
StackBefore(name) ==
    IF name = "add_pdb_session" THEN <<_namespace_stack>> ELSE NoStack
StackBeforeAdd(name, arg) ==
    IF name = "remove_pdb_session" /\ op.name = "add_pdb_session"
       /\ op.arg = arg
    THEN op.before
    ELSE NoStack

Call(fn, obj, arg) == [fn |-> fn, obj |-> obj, arg |-> arg]

Leaves(name, arg, exc, cs) ==
    /\ op' = [name |-> name, arg |-> arg, pdb_conf |-> EmptyDict,
              before |-> StackBefore(name),
              after_add |-> StackBeforeAdd(name, arg)]
    /\ raised' = exc
    /\ calls' = cs

\* An operation whose arguments and result are not recorded in io.
Ends(name, arg, exc, cs) ==
    /\ Leaves(name, arg, exc, cs)
    /\ UNCHANGED io

SignalVars ==
    <<_request_pdb_stop, _allow_kbdint, n_created, sigint_handler,
      sigint_pending, req_pc, run_depth>>
SessionFlags == <<interrupting, allow_kbdint>>

set_pdb_configuration(pdb_conf) ==
    /\ _pdb_conf' = ConfAfterSet(_pdb_conf, pdb_conf)
    /\ pdb_attrs' = AttrsAfterSet(pdb_attrs, _namespace_stack, pdb_conf)
    /\ op' = [name |-> "set_pdb_configuration", arg |-> None,
              pdb_conf |-> pdb_conf, before |-> NoStack,
              after_add |-> NoStack]
    /\ raised' = NoException
    /\ calls' = <<>>
    /\ UNCHANGED <<_namespace_stack, __user_ns, curframe, SessionFlags,
                   SignalVars, io>>

(***************************************************************************)
(* add_pdb_session / remove_pdb_session as functions of the stack.         *)
(***************************************************************************)
StackAfterAddPdb(stack, pdb_obj) ==
    IF pdb_session(stack) = pdb_obj THEN stack ELSE Append(stack, pdb_obj)

AttrsAfterAddPdb(attrs, stack, conf, pdb_obj) ==
    IF pdb_session(stack) = pdb_obj THEN attrs
    ELSE AttrsAfterSet(attrs, Append(stack, pdb_obj), conf)

\* remove_pdb_session through list.remove: the first occurrence goes.
StackAfterRemoveFirst(stack, pdb_obj) ==
    IF pdb_session(stack) # pdb_obj THEN stack
    ELSE LET i == CHOOSE k \in 1..Len(stack) :
                     /\ stack[k] = pdb_obj
                     /\ \A j \in 1..(k - 1) : stack[j] # pdb_obj
         IN  SubSeq(stack, 1, i - 1) \o SubSeq(stack, i + 1, Len(stack))

StackAfterRemovePdb(stack, pdb_obj) ==
    IF pdb_session(stack) # pdb_obj THEN stack
    ELSE SubSeq(stack, 1, Len(stack) - 1)

\* remove_pdb_session without the configuration set again.
AttrsAfterRemovePdbNotSetAgain(attrs, stack, conf, pdb_obj) == attrs

AttrsAfterRemovePdb(attrs, stack, conf, pdb_obj) ==
    IF pdb_session(stack) # pdb_obj THEN attrs
    ELSE AttrsAfterSet(attrs, SubSeq(stack, 1, Len(stack) - 1), conf)

add_pdb_session(pdb_obj) ==
    /\ Len(StackAfterAddPdb(_namespace_stack, pdb_obj)) <= MaxStack
    /\ _namespace_stack' = StackAfterAddPdb(_namespace_stack, pdb_obj)
    /\ pdb_attrs' =
          AttrsAfterAddPdb(pdb_attrs, _namespace_stack, _pdb_conf, pdb_obj)
    /\ Ends("add_pdb_session", pdb_obj, NoException, <<>>)
    /\ UNCHANGED <<__user_ns, _pdb_conf, curframe, SessionFlags, SignalVars>>

remove_pdb_session(pdb_obj) ==
    /\ _namespace_stack' = StackAfterRemovePdb(_namespace_stack, pdb_obj)
    /\ pdb_attrs' =
          AttrsAfterRemovePdb(pdb_attrs, _namespace_stack, _pdb_conf, pdb_obj)
    /\ Ends("remove_pdb_session", pdb_obj, NoException, <<>>)
    /\ UNCHANGED <<__user_ns, _pdb_conf, curframe, SessionFlags, SignalVars>>

add_namespace_manager(ns_manager) ==
    /\ Len(_namespace_stack) < MaxStack
    /\ _namespace_stack' = Append(_namespace_stack, ns_manager)
    /\ Ends("add_namespace_manager", ns_manager, NoException, <<>>)
    /\ UNCHANGED <<__user_ns, _pdb_conf, pdb_attrs, curframe, SessionFlags,
                   SignalVars>>

\* self._namespace_stack[-1] on an empty list raises IndexError.
remove_namespace_manager(ns_manager) ==
    /\ IF _namespace_stack = <<>>
       THEN /\ UNCHANGED _namespace_stack
            /\ Ends("remove_namespace_manager", ns_manager, "IndexError", <<>>)
       ELSE IF _namespace_stack[Len(_namespace_stack)] # ns_manager
       THEN /\ UNCHANGED _namespace_stack
            /\ Ends("remove_namespace_manager", ns_manager, NoException,
                    <<Call("logger.debug", None, None)>>)
       ELSE /\ _namespace_stack' =
                  SubSeq(_namespace_stack, 1, Len(_namespace_stack) - 1)
            /\ Ends("remove_namespace_manager", ns_manager, NoException, <<>>)
    /\ UNCHANGED <<__user_ns, _pdb_conf, pdb_attrs, curframe, SessionFlags,
                   SignalVars>>

\* The user_ns setter.
set_user_ns(namespace) ==
    /\ __user_ns' = namespace
    /\ Ends("set_user_ns", namespace, NoException, <<>>)
    /\ UNCHANGED <<_namespace_stack, _pdb_conf, pdb_attrs, curframe,
                   SessionFlags, SignalVars>>

\* The debugger moves to a frame, or leaves it: session.curframe changes.
set_curframe(pdb_obj, frame) ==
    /\ curframe[pdb_obj] # frame
    /\ curframe' = [curframe EXCEPT ![pdb_obj] = frame]
    /\ Ends("set_curframe", pdb_obj, NoException, <<>>)
    /\ UNCHANGED <<_namespace_stack, __user_ns, _pdb_conf, pdb_attrs,
                   SessionFlags, SignalVars>>

(***************************************************************************)
(* The debugger session's own methods (SpyderPdb, spyderpdb.py).           *)
(* interrupt() marks the session interrupting; set_trace(frame) enters the *)
(* debugger at frame, which registers the session with the shell.          *)
(***************************************************************************)
InterruptingAfterInterrupt(flags, session) == [flags EXCEPT ![session] = TRUE]

StackAfterSetTrace(stack, session) == StackAfterAddPdb(stack, session)

AttrsAfterSetTrace(attrs, stack, conf, session) ==
    AttrsAfterAddPdb(attrs, stack, conf, session)

(***************************************************************************)
(* spyderkernel_sigint_handler(signum, frame): everything but the pending  *)
(* signal it consumes.                                                     *)
(***************************************************************************)
\* The handler leaving _request_pdb_stop set.
SigintStopKeepsFlag(frame) ==
    LET debugger == SigPdb(n_created + 1) IN
    /\ n_created < MaxCreated
    /\ Len(StackAfterSetTrace(_namespace_stack, debugger)) <= MaxStack
    /\ UNCHANGED _request_pdb_stop
    /\ n_created' = n_created + 1
    /\ interrupting' = InterruptingAfterInterrupt(interrupting, debugger)
    /\ _namespace_stack' = StackAfterSetTrace(_namespace_stack, debugger)
    /\ pdb_attrs' =
          AttrsAfterSetTrace(pdb_attrs, _namespace_stack, _pdb_conf, debugger)
    /\ Ends("sigint", frame, NoException,
            <<Call("SpyderPdb", debugger, None),
              Call("interrupt", debugger, None),
              Call("set_trace", debugger, frame)>>)

SigintStop(frame) ==
    LET debugger == SigPdb(n_created + 1) IN
    /\ n_created < MaxCreated
    /\ Len(StackAfterSetTrace(_namespace_stack, debugger)) <= MaxStack
    /\ _request_pdb_stop' = FALSE
    /\ n_created' = n_created + 1
    /\ interrupting' = InterruptingAfterInterrupt(interrupting, debugger)
    /\ _namespace_stack' = StackAfterSetTrace(_namespace_stack, debugger)
    /\ pdb_attrs' =
          AttrsAfterSetTrace(pdb_attrs, _namespace_stack, _pdb_conf, debugger)
    /\ Ends("sigint", frame, NoException,
            <<Call("SpyderPdb", debugger, None),
              Call("interrupt", debugger, None),
              Call("set_trace", debugger, frame)>>)

\* The handler without the test of session.interrupting.
SigintNeverRaisesForInterrupting(frame) ==
    LET session == pdb_session(_namespace_stack) IN
    /\ IF allow_kbdint[session]
       THEN /\ Ends("sigint", frame, "KeyboardInterrupt", <<>>)
            /\ UNCHANGED interrupting
       ELSE /\ interrupting' =
                  InterruptingAfterInterrupt(interrupting, session)
            /\ Ends("sigint", frame, NoException,
                    <<Call("interrupt", session, None)>>)
    /\ UNCHANGED <<_request_pdb_stop, n_created, _namespace_stack, pdb_attrs>>

\* The handler without the test of session.allow_kbdint.
SigintIgnoresSessionAllowKbdint(frame) ==
    LET session == pdb_session(_namespace_stack) IN
    /\ IF interrupting[session]
       THEN /\ Ends("sigint", frame, "KeyboardInterrupt", <<>>)
            /\ UNCHANGED interrupting
       ELSE /\ interrupting' =
                  InterruptingAfterInterrupt(interrupting, session)
            /\ Ends("sigint", frame, NoException,
                    <<Call("interrupt", session, None)>>)
    /\ UNCHANGED <<_request_pdb_stop, n_created, _namespace_stack, pdb_attrs>>

SigintWhileDebugging(frame) ==
    LET session == pdb_session(_namespace_stack) IN
    /\ IF allow_kbdint[session]
       THEN /\ Ends("sigint", frame, "KeyboardInterrupt", <<>>)
            /\ UNCHANGED interrupting
       ELSE IF interrupting[session]
       THEN /\ Ends("sigint", frame, "KeyboardInterrupt", <<>>)
            /\ UNCHANGED interrupting
       ELSE /\ interrupting' =
                  InterruptingAfterInterrupt(interrupting, session)
            /\ Ends("sigint", frame, NoException,
                    <<Call("interrupt", session, None)>>)
    /\ UNCHANGED <<_request_pdb_stop, n_created, _namespace_stack, pdb_attrs>>

\* The handler raising whether or not _allow_kbdint is set.
SigintNoSessionAlwaysRaises(frame) ==
    /\ Ends("sigint", frame, "KeyboardInterrupt", <<>>)
    /\ UNCHANGED <<_request_pdb_stop, n_created, _namespace_stack, pdb_attrs,
                   interrupting>>

SigintNoSession(frame) ==
    /\ Ends("sigint", frame,
            IF _allow_kbdint THEN "KeyboardInterrupt" ELSE NoException, <<>>)
    /\ UNCHANGED <<_request_pdb_stop, n_created, _namespace_stack, pdb_attrs,
                   interrupting>>

spyderkernel_sigint_handler(frame) ==
    /\ IF _request_pdb_stop THEN SigintStop(frame)
       ELSE IF pdb_session(_namespace_stack) # NoSession
       THEN SigintWhileDebugging(frame)
       ELSE SigintNoSession(frame)
    /\ UNCHANGED <<__user_ns, _pdb_conf, _allow_kbdint, curframe, allow_kbdint,
                   sigint_handler, req_pc, run_depth>>

\* The main thread takes the pending SIGINT at some frame and runs the
\* installed handler.
deliver_sigint(frame) ==
    /\ sigint_pending
    /\ sigint_handler = "spyderkernel_sigint_handler"
    /\ sigint_pending' = FALSE
    /\ spyderkernel_sigint_handler(frame)

\* A handler installed by someone else: signal.default_int_handler raises
\* KeyboardInterrupt and reads nothing of the shell.
deliver_sigint_elsewhere(frame) ==
    /\ sigint_pending
    /\ sigint_handler # "spyderkernel_sigint_handler"
    /\ sigint_pending' = FALSE
    /\ Ends("foreign_sigint", frame, "KeyboardInterrupt", <<>>)
    /\ UNCHANGED <<_namespace_stack, __user_ns, _pdb_conf, _request_pdb_stop,
                   _allow_kbdint, curframe, SessionFlags, pdb_attrs, n_created,
                   sigint_handler, req_pc, run_depth>>

\* raise_interrupt_signal, and a SIGINT sent to the process by anyone else.
\* A signal sent while one is pending is merged with it.
raise_interrupt_signal ==
    /\ sigint_pending' = TRUE
    /\ Ends("raise_interrupt_signal", None, NoException, <<>>)
    /\ UNCHANGED <<_namespace_stack, __user_ns, _pdb_conf, _request_pdb_stop,
                   _allow_kbdint, curframe, SessionFlags, pdb_attrs, n_created,
                   sigint_handler, req_pc, run_depth>>

register_debugger_sigint ==
    /\ sigint_handler' = "spyderkernel_sigint_handler"
    /\ Ends("register_debugger_sigint", None, NoException, <<>>)
    /\ UNCHANGED <<_namespace_stack, __user_ns, _pdb_conf, _request_pdb_stop,
                   _allow_kbdint, curframe, SessionFlags, pdb_attrs, n_created,
                   sigint_pending, req_pc, run_depth>>

\* signal.signal(SIGINT, ...) called by other code.
replace_sigint_handler ==
    /\ sigint_handler' = "default_int_handler"
    /\ Ends("replace_sigint_handler", None, NoException, <<>>)
    /\ UNCHANGED <<_namespace_stack, __user_ns, _pdb_conf, _request_pdb_stop,
                   _allow_kbdint, curframe, SessionFlags, pdb_attrs, n_created,
                   sigint_pending, req_pc, run_depth>>

(***************************************************************************)
(* request_pdb_stop, run by the comm thread.  The branch that signals the  *)
(* main thread takes two steps: the flag, then raise_interrupt_signal().   *)
(***************************************************************************)
\* request_pdb_stop without the test of session.interrupting.
RequestPdbStopInterruptsAgain ==
    LET session == pdb_session(_namespace_stack) IN
    /\ req_pc = "idle"
    /\ IF session # NoSession
       THEN /\ interrupting' =
                  InterruptingAfterInterrupt(interrupting, session)
            /\ Ends("request_pdb_stop", None, NoException,
                    <<Call("interrupt", session, None)>>)
            /\ UNCHANGED <<_request_pdb_stop, req_pc>>
       ELSE IF sigint_handler = "spyderkernel_sigint_handler"
       THEN /\ _request_pdb_stop' = TRUE
            /\ req_pc' = "raise_interrupt_signal"
            /\ Ends("request_pdb_stop", None, NoException, <<>>)
            /\ UNCHANGED interrupting
       ELSE /\ Ends("request_pdb_stop", None, NoException,
                    <<Call("logger.debug", None, None)>>)
            /\ UNCHANGED <<interrupting, _request_pdb_stop, req_pc>>
    /\ UNCHANGED <<_namespace_stack, __user_ns, _pdb_conf, _allow_kbdint,
                   curframe, allow_kbdint, pdb_attrs, n_created,
                   sigint_handler, sigint_pending, run_depth>>

\* request_pdb_stop without the test of the installed handler: with no
\* session it sets the flag and goes on to raise the signal.
RequestPdbStopWhateverHandler ==
    LET session == pdb_session(_namespace_stack) IN
    /\ req_pc = "idle"
    /\ IF session # NoSession
       THEN IF interrupting[session]
            THEN /\ Ends("request_pdb_stop", None, NoException, <<>>)
                 /\ UNCHANGED <<interrupting, _request_pdb_stop, req_pc>>
            ELSE /\ interrupting' =
                       InterruptingAfterInterrupt(interrupting, session)
                 /\ Ends("request_pdb_stop", None, NoException,
                         <<Call("interrupt", session, None)>>)
                 /\ UNCHANGED <<_request_pdb_stop, req_pc>>
       ELSE /\ _request_pdb_stop' = TRUE
            /\ req_pc' = "raise_interrupt_signal"
            /\ Ends("request_pdb_stop", None, NoException, <<>>)
            /\ UNCHANGED interrupting
    /\ UNCHANGED <<_namespace_stack, __user_ns, _pdb_conf, _allow_kbdint,
                   curframe, allow_kbdint, pdb_attrs, n_created,
                   sigint_handler, sigint_pending, run_depth>>

request_pdb_stop ==
    LET session == pdb_session(_namespace_stack) IN
    /\ req_pc = "idle"
    /\ IF session # NoSession
       THEN IF interrupting[session]
            THEN /\ Ends("request_pdb_stop", None, NoException, <<>>)
                 /\ UNCHANGED <<interrupting, _request_pdb_stop, req_pc>>
            ELSE /\ interrupting' =
                       InterruptingAfterInterrupt(interrupting, session)
                 /\ Ends("request_pdb_stop", None, NoException,
                         <<Call("interrupt", session, None)>>)
                 /\ UNCHANGED <<_request_pdb_stop, req_pc>>
       ELSE IF sigint_handler = "spyderkernel_sigint_handler"
       THEN /\ _request_pdb_stop' = TRUE
            /\ req_pc' = "raise_interrupt_signal"
            /\ Ends("request_pdb_stop", None, NoException, <<>>)
            /\ UNCHANGED interrupting
       ELSE /\ Ends("request_pdb_stop", None, NoException,
                    <<Call("logger.debug", None, None)>>)
            /\ UNCHANGED <<interrupting, _request_pdb_stop, req_pc>>
    /\ UNCHANGED <<_namespace_stack, __user_ns, _pdb_conf, _allow_kbdint,
                   curframe, allow_kbdint, pdb_attrs, n_created,
                   sigint_handler, sigint_pending, run_depth>>

request_pdb_stop_signal ==
    /\ req_pc = "raise_interrupt_signal"
    /\ req_pc' = "idle"
    /\ sigint_pending' = TRUE
    /\ Ends("request_pdb_stop_signal", None, NoException,
            <<Call("raise_interrupt_signal", None, None)>>)
    /\ UNCHANGED <<_namespace_stack, __user_ns, _pdb_conf, _request_pdb_stop,
                   _allow_kbdint, curframe, SessionFlags, pdb_attrs, n_created,
                   sigint_handler, run_depth>>

(***************************************************************************)
(* run_code: the entry up to the await, and the exit through finally and   *)
(* except with the way the base run_code ended.                            *)
(***************************************************************************)
RunOutcomes == {"return", "KeyboardInterrupt", "Exception"}

run_code_enter ==
    /\ run_depth < MaxRunDepth
    /\ _allow_kbdint' = TRUE
    /\ run_depth' = run_depth + 1
    /\ Ends("run_code_enter", None, NoException, <<>>)
    /\ UNCHANGED <<_namespace_stack, __user_ns, _pdb_conf, _request_pdb_stop,
                   curframe, SessionFlags, pdb_attrs, n_created,
                   sigint_handler, sigint_pending, req_pc>>

\* run_code with the reset after the await instead of in a finally clause.
RunCodeExitWithoutFinally(outcome) ==
    /\ run_depth > 0
    /\ _allow_kbdint' = IF outcome = "return" THEN FALSE ELSE _allow_kbdint
    /\ run_depth' = run_depth - 1
    /\ Ends("run_code_exit", outcome,
            IF outcome = "Exception" THEN "Exception" ELSE NoException,
            IF outcome = "KeyboardInterrupt"
            THEN <<Call("showtraceback", None, None)>> ELSE <<>>)
    /\ UNCHANGED <<_namespace_stack, __user_ns, _pdb_conf, _request_pdb_stop,
                   curframe, SessionFlags, pdb_attrs, n_created,
                   sigint_handler, sigint_pending, req_pc>>

run_code_exit(outcome) ==
    /\ run_depth > 0
    /\ _allow_kbdint' = FALSE
    /\ run_depth' = run_depth - 1
    /\ Ends("run_code_exit", outcome,
            IF outcome = "Exception" THEN "Exception" ELSE NoException,
            IF outcome = "KeyboardInterrupt"
            THEN <<Call("showtraceback", None, None)>> ELSE <<>>)
    /\ UNCHANGED <<_namespace_stack, __user_ns, _pdb_conf, _request_pdb_stop,
                   curframe, SessionFlags, pdb_attrs, n_created,
                   sigint_handler, sigint_pending, req_pc>>

(***************************************************************************)
(* What the debugger does to its own session.                              *)
(***************************************************************************)
\* The session starts or stops running a user command.
pdb_set_allow_kbdint(pdb_obj, value) ==
    /\ allow_kbdint[pdb_obj] # value
    /\ allow_kbdint' = [allow_kbdint EXCEPT ![pdb_obj] = value]
    /\ Ends("pdb_set_allow_kbdint", pdb_obj, NoException, <<>>)
    /\ UNCHANGED <<_namespace_stack, __user_ns, _pdb_conf, pdb_attrs, curframe,
                   interrupting, SignalVars>>

\* The session stops at a prompt: the interrupt it was asked for is served.
pdb_interrupt_served(pdb_obj) ==
    /\ interrupting[pdb_obj]
    /\ interrupting' = [interrupting EXCEPT ![pdb_obj] = FALSE]
    /\ Ends("pdb_interrupt_served", pdb_obj, NoException, <<>>)
    /\ UNCHANGED <<_namespace_stack, __user_ns, _pdb_conf, pdb_attrs, curframe,
                   allow_kbdint, SignalVars>>

(***************************************************************************)
(* Text.  A line is a sequence of characters; a batch of lines is a        *)
(* sequence of lines of length MaxLines at most.                           *)
(***************************************************************************)
MaxLines == 2

Batches(Lines) == UNION {[1..n -> Lines] : n \in 0..MaxLines}

\* str.startswith
startswith(line, prefix) ==
    /\ Len(prefix) <= Len(line)
    /\ SubSeq(line, 1, Len(prefix)) = prefix

ShellVars ==
    <<_namespace_stack, __user_ns, _pdb_conf, curframe, pdb_attrs,
      SessionFlags, SignalVars>>

(***************************************************************************)
(* _do_input_cleanup                                                       *)
(***************************************************************************)
_disabled_pkg_managers ==
    << <<"c", "o", "n", "d", "a">>,
       <<"m", "a", "m", "b", "a">>,
       <<"m", "i", "c", "r", "o", "m", "a", "m", "b", "a">>,
       <<"p", "i", "p">>,
       <<"p", "i", "x", "i">>,
       <<"u", "v">> >>

_disable_pkg_managers_msg ==
    "\\nInstalling packages through the IPython console doesn't work reliably in Spyder. Please use a system terminal to do that, i.e. cmd.exe on Windows, Terminal on macOS or xterm on Linux."

\* f'print("{self._disable_pkg_managers_msg}")', the message standing for
\* its characters.
WarningLine == <<"print(\"", _disable_pkg_managers_msg, "\")">>

\* ["%", "!"]
CommandPrefixes == << <<"%">>, <<"!">> >>

\* any([line.startswith(f"{prefix}{command}") for prefix, command in
\*      itertools.product(["%", "!"], self._disabled_pkg_managers)])
IsDisabledCommand(line) ==
    \E i \in DOMAIN CommandPrefixes, j \in DOMAIN _disabled_pkg_managers :
        startswith(line, CommandPrefixes[i] \o _disabled_pkg_managers[j])

\* The loop that looks at the first line only.
ScanInputCleanupFirstLine(lines, i) ==
    IF lines # <<>> /\ IsDisabledCommand(lines[1]) THEN <<WarningLine>>
    ELSE lines

RECURSIVE ScanInputCleanup(_, _)
ScanInputCleanup(lines, i) ==
    IF i > Len(lines) THEN lines
    ELSE IF IsDisabledCommand(lines[i]) THEN <<WarningLine>>
    ELSE ScanInputCleanup(lines, i + 1)

\* The lines the input transformer is given.
CleanupLines ==
    { <<"%", "p", "i", "p", " ", "i">>,
      <<"!", "c", "o", "n", "d", "a">>,
      <<"!", "u", "v">>,
      <<"%", "u", "v", "x">>,
      <<"%", "m", "a", "m", "b", "a">>,
      <<"%", "m", "i", "c", "r", "o", "m", "a", "m", "b", "a">>,
      <<"!", "p", "i", "x", "i">>,
      <<"p", "i", "p">>,
      <<" ", "%", "p", "i", "p">>,
      <<"%", " ", "p", "i", "p">>,
      <<"%", "p", "i">>,
      <<"%", "%", "p", "i", "p">>,
      <<"x", "=", "1">>,
      <<>> }

_do_input_cleanup(lines) ==
    /\ io' = [io EXCEPT !.lines = lines, !.out = ScanInputCleanup(lines, 1)]
    /\ Leaves("_do_input_cleanup", None, NoException, <<>>)
    /\ UNCHANGED ShellVars

(***************************************************************************)
(* _showtraceback.  A directory name stands for its characters.            *)
(***************************************************************************)
_package_locations ==
    {"site-packages/spyder_kernels",
     "external-deps/spyder-kernels/spyder_kernels"}

Esc == "\\x1b"
FileWord == <<"F", "i", "l", "e", " ">>

\* re.match(r"File (.*)", line)
MatchesVerboseFile(line) == startswith(line, FileWord)

\* re.match(r"\x1b\[(.*)  File (.*)", line); "." matches no newline.
MatchesPlainFile(line) ==
    /\ startswith(line, <<Esc, "[">>)
    /\ \E k \in 3..Len(line) :
          /\ \A j \in 3..(k - 1) : line[j] # "\n"
          /\ startswith(SubSeq(line, k, Len(line)), <<" ", " ">> \o FileWord)

\* any([location in line for location in self._package_locations])
ContainsPackageLocation(line) ==
    \E k \in DOMAIN line : line[k] \in _package_locations

\* The test of the location without the test of the pattern.
LineWithPackageLocation(line) ==
    \E k \in DOMAIN line : line[k] \in _package_locations

IsPackageFileLine(line) ==
    /\ MatchesVerboseFile(line) \/ MatchesPlainFile(line)
    /\ ContainsPackageLocation(line)

RECURSIVE FilterLines(_, _)
FilterLines(stb, i) ==
    IF i > Len(stb) THEN <<>>
    ELSE IF IsPackageFileLine(stb[i]) THEN FilterLines(stb, i + 1)
    ELSE <<stb[i]>> \o FilterLines(stb, i + 1)

spyder_stb(etype, stb) ==
    IF etype = "BdbQuit" THEN << <<>> >> ELSE FilterLines(stb, 1)

Etypes == {"BdbQuit", "ValueError"}

\* The lines of the tracebacks the shell is given.
TracebackLines ==
    { FileWord \o <<"site-packages/spyder_kernels", "/", "s", ".", "p", "y">>,
      FileWord \o <<"/", "a", ".", "p", "y">>,
      <<Esc, "[", "0", "m", " ", " ">> \o FileWord
          \o <<"external-deps/spyder-kernels/spyder_kernels">>,
      <<Esc, "[", " ", " ">> \o FileWord \o <<"site-packages/spyder_kernels">>,
      <<Esc, "[", "0", "m", " ", " ">> \o FileWord \o <<"/", "a", ".", "p", "y">>,
      <<Esc, "[", "0", "m", " ">> \o FileWord
          \o <<"site-packages/spyder_kernels">>,
      <<Esc, "[", "\n", " ", " ">> \o FileWord
          \o <<"site-packages/spyder_kernels">>,
      <<" ", " ">> \o FileWord \o <<"site-packages/spyder_kernels">>,
      <<"site-packages/spyder_kernels", " ">> \o FileWord,
      <<"F", "i", "l", "e", "site-packages/spyder_kernels">>,
      <<"E", "r", "r">>,
      <<>> }

_showtraceback(etype, stb) ==
    /\ io' = [io EXCEPT !.etype = etype, !.lines = stb,
                         !.out = spyder_stb(etype, stb)]
    /\ Leaves("_showtraceback", None, NoException,
              <<Call("super()._showtraceback", None, None)>>)
    /\ UNCHANGED ShellVars

(***************************************************************************)
(* _get_current_namespace.  A namespace is a dict from names to objects;   *)
(* the object a namespace binds to a name is modelled by the namespace it  *)
(* is bound in.                                                            *)
(***************************************************************************)
GlobalNames == {"g", "x", "run", "time"}
LocalNames == {"l", "x", "run"}
LineMagics == <<"magics", "line">>
CellMagics == <<"magics", "cell">>

Contents(namespace) ==
    IF namespace = LineMagics THEN [name \in {"run", "time"} |-> namespace]
    ELSE IF namespace = CellMagics THEN [name \in {"time"} |-> namespace]
    ELSE IF namespace[1] \in {"f_globals", "ns_globals", "user_ns"}
    THEN [name \in GlobalNames |-> namespace]
    ELSE [name \in LocalNames |-> namespace]

\* dict.update
Update(ns, other) ==
    [name \in DOMAIN ns \cup DOMAIN other |->
        IF name \in DOMAIN other THEN other[name] ELSE ns[name]]

CurrentNamespace(with_magics, frame) ==
    IF frame # None
    THEN Update(Contents(<<"f_globals", frame>>),
                Contents(context_locals(frame)))
    ELSE LET ns1 == Update(EmptyDict, Contents(user_ns))
             ns2 == IF context_locals(None) # NoLocals
                    THEN Update(ns1, Contents(context_locals(None)))
                    ELSE ns1
         IN  IF with_magics
             THEN Update(Update(ns2, Contents(LineMagics)),
                         Contents(CellMagics))
             ELSE ns2

_get_current_namespace(with_magics, frame) ==
    /\ io' = [io EXCEPT !.with_magics = with_magics,
                         !.ns = CurrentNamespace(with_magics, frame)]
    /\ Leaves("_get_current_namespace", frame, NoException, <<>>)
    /\ UNCHANGED ShellVars

InitShell ==
    /\ _namespace_stack = <<>>
    /\ __user_ns = "ns_a"
    /\ _pdb_conf = EmptyDict
    /\ _request_pdb_stop = FALSE
    /\ _allow_kbdint = FALSE
    /\ curframe = [p \in AllPdbs |-> None]
    /\ interrupting = [p \in AllPdbs |-> FALSE]
    /\ allow_kbdint = [p \in AllPdbs |-> FALSE]
    /\ pdb_attrs = [p \in AllPdbs |-> EmptyDict]
    /\ n_created = 0
    /\ sigint_handler = "spyderkernel_sigint_handler"
    /\ sigint_pending = FALSE
    /\ req_pc = "idle"
    /\ run_depth = 0
    /\ op = [name |-> "__init__", arg |-> None, pdb_conf |-> EmptyDict,
             before |-> NoStack, after_add |-> NoStack]
    /\ raised = NoException
    /\ calls = <<>>

Init ==
    /\ InitShell
    /\ io = NoIO

\* The shell after construction and a batch of lines, with the type of an
\* exception, to be handed to it.
InitText ==
    /\ InitShell
    /\ io \in [etype : Etypes, lines : Batches(CleanupLines \cup TracebackLines),
               out : {<<>>}, with_magics : {FALSE}, ns : {EmptyDict}]

(***************************************************************************)
(* The namespace stack under every sequence of pushes, pops, curframe      *)
(* changes and user_ns assignments.                                        *)
(***************************************************************************)
NextStack ==
    \/ \E p \in Pdbs : add_pdb_session(p)
    \/ \E p \in Pdbs : remove_pdb_session(p)
    \/ \E m \in Managers : add_namespace_manager(m)
    \/ \E m \in Managers : remove_namespace_manager(m)
    \/ \E p \in Pdbs, f \in Frames \cup {None} : set_curframe(p, f)
    \/ \E n \in UserNamespaces : set_user_ns(n)

SpecStack == Init /\ [][NextStack]_vars

(***************************************************************************)
(* The interrupt policy: signals, stop requests, run_code and the sessions *)
(* that come and go meanwhile.                                             *)
(***************************************************************************)
NextSigint ==
    \/ \E f \in Frames : deliver_sigint(f)
    \/ \E f \in Frames : deliver_sigint_elsewhere(f)
    \/ raise_interrupt_signal
    \/ register_debugger_sigint
    \/ replace_sigint_handler
    \/ request_pdb_stop
    \/ request_pdb_stop_signal
    \/ \E p \in SigintPdbs : add_pdb_session(p)
    \/ \E p \in SigintPdbs : remove_pdb_session(p)
    \/ \E p \in SigintPdbs, b \in BOOLEAN : pdb_set_allow_kbdint(p, b)
    \/ \E p \in SigintPdbs : pdb_interrupt_served(p)

SpecSigint == Init /\ [][NextSigint]_vars

(***************************************************************************)
(* run_code under signals and stop requests.                               *)
(***************************************************************************)
NextRun ==
    \/ run_code_enter
    \/ \E o \in RunOutcomes : run_code_exit(o)
    \/ \E f \in Frames : deliver_sigint(f)
    \/ raise_interrupt_signal
    \/ request_pdb_stop
    \/ request_pdb_stop_signal
    \/ \E p \in CreatedPdbs : remove_pdb_session(p)
    \/ \E p \in CreatedPdbs : pdb_interrupt_served(p)

SpecRun == Init /\ [][NextRun]_vars

(***************************************************************************)
(* The persisted configuration under pushes and pops.                      *)
(***************************************************************************)
NextConf ==
    \/ \E c \in InputConfs : set_pdb_configuration(c)
    \/ \E p \in Pdbs : add_pdb_session(p)
    \/ \E p \in Pdbs : remove_pdb_session(p)
    \/ \E m \in ConfManagers : add_namespace_manager(m)
    \/ \E m \in ConfManagers : remove_namespace_manager(m)

SpecConf == Init /\ [][NextConf]_vars

(***************************************************************************)
(* The functions of text applied to every batch of lines.                  *)
(***************************************************************************)
NextText ==
    \/ _do_input_cleanup(io.lines)
    \/ _showtraceback(io.etype, io.lines)

SpecText == InitText /\ [][NextText]_vars

(***************************************************************************)
(* The namespace handed out under every stack.                             *)
(***************************************************************************)
NextNamespace ==
    \/ \E p \in Pdbs : add_pdb_session(p)
    \/ \E p \in Pdbs : remove_pdb_session(p)
    \/ \E m \in ConfManagers : add_namespace_manager(m)
    \/ \E m \in ConfManagers : remove_namespace_manager(m)
    \/ \E p \in Pdbs, f \in Frames \cup {None} : set_curframe(p, f)
    \/ \E w \in BOOLEAN, f \in Frames \cup {None} :
          _get_current_namespace(w, f)

SpecNamespace == Init /\ [][NextNamespace]_vars

(***************************************************************************)
(* Positions of the stack, for the statements below.                       *)
(***************************************************************************)
Top(stack) == stack[Len(stack)]
Pop(stack) == SubSeq(stack, 1, Len(stack) - 1)
MaxOf(S) == CHOOSE x \in S : \A y \in S : y <= x
StoppedPdbAt ==
    {i \in 1..Len(_namespace_stack) :
        IsPdb(_namespace_stack[i]) /\ curframe[_namespace_stack[i]] # None}
ManagerAt ==
    {i \in 1..Len(_namespace_stack) : IsNamespaceManager(_namespace_stack[i])}

\* C1 as stated: user_ns is the frame globals of the top-most debugger
\* session with a frame wherever it is on the stack, else the ns_globals of
\* the top-most namespace manager, else the fallback namespace.
C1_DebuggerFirst ==
    user_ns =
        IF StoppedPdbAt # {}
        THEN <<"f_globals", curframe[_namespace_stack[MaxOf(StoppedPdbAt)]]>>
        ELSE IF ManagerAt # {}
        THEN <<"ns_globals", _namespace_stack[MaxOf(ManagerAt)]>>
        ELSE <<"user_ns", __user_ns>>

\* C1 amended: user_ns is decided by the top-most entry that is a debugger
\* session with a frame or a namespace manager: the frame globals of the
\* former, the ns_globals of the latter; the fallback namespace when the
\* stack holds no such entry.
C1_TopMostEntryDecides ==
    user_ns =
        IF StoppedPdbAt \cup ManagerAt = {} THEN <<"user_ns", __user_ns>>
        ELSE IF MaxOf(StoppedPdbAt \cup ManagerAt) \in ManagerAt
        THEN <<"ns_globals", _namespace_stack[MaxOf(ManagerAt)]>>
        ELSE <<"f_globals", curframe[_namespace_stack[MaxOf(StoppedPdbAt)]]>>

\* A namespace manager above a stopped debugger, after a push.
C1_Witness ==
    /\ op.name = "add_namespace_manager"
    /\ StoppedPdbAt # {}
    /\ ManagerAt # {}
    /\ MaxOf(ManagerAt) > MaxOf(StoppedPdbAt)
    /\ user_ns = <<"ns_globals", Top(_namespace_stack)>>

\* C2 as stated: remove_pdb_session(p) pops exactly p when p is the top
\* entry and leaves the stack unchanged otherwise.
C2_RemovesOnlyItsSession ==
    [][op'.name = "remove_pdb_session" =>
        IF _namespace_stack # <<>> /\ Top(_namespace_stack) = op'.arg
        THEN _namespace_stack' = Pop(_namespace_stack)
        ELSE _namespace_stack' = _namespace_stack]_vars

\* C3 as stated: remove_namespace_manager(m) raises nothing, pops exactly
\* m when m is the top entry and leaves the stack unchanged otherwise, the
\* empty stack included.
C3_RemoveManagerNeverRaises ==
    [][op'.name = "remove_namespace_manager" =>
        /\ raised' = NoException
        /\ IF _namespace_stack # <<>> /\ Top(_namespace_stack) = op'.arg
           THEN _namespace_stack' = Pop(_namespace_stack)
           ELSE _namespace_stack' = _namespace_stack]_vars

(***************************************************************************)
(* The interrupt policy.                                                   *)
(***************************************************************************)
ActiveSession == pdb_session(_namespace_stack)
ShellState ==
    <<_namespace_stack, __user_ns, _pdb_conf, _request_pdb_stop, _allow_kbdint,
      curframe, interrupting, allow_kbdint, pdb_attrs, n_created>>
Constructions(cs) == {i \in 1..Len(cs) : cs[i].fn = "SpyderPdb"}

\* C4: a SIGINT handled with _request_pdb_stop set clears the flag,
\* constructs exactly one debugger session, marks it interrupting and calls
\* its set_trace with the interrupted frame, raising nothing, whatever
\* session is active; handled with the flag clear it constructs none.
C4_RequestedStopEntersDebuggerOnce ==
    [][op'.name = "sigint" =>
        IF _request_pdb_stop
        THEN /\ ~_request_pdb_stop'
             /\ raised' = NoException
             /\ n_created' = n_created + 1
             /\ Cardinality(Constructions(calls')) = 1
             /\ interrupting'[SigPdb(n_created')]
             /\ calls'[Len(calls')] =
                   Call("set_trace", SigPdb(n_created'), op'.arg)
        ELSE /\ n_created' = n_created
             /\ Constructions(calls') = {}
             /\ ~_request_pdb_stop']_vars

\* The handler has entered a new debugger above a session that allows
\* KeyboardInterrupt.
C4_Witness ==
    /\ op.name = "sigint"
    /\ Len(calls) = 3
    /\ calls[3] = Call("set_trace", "sigpdb1", "f2")
    /\ ~_request_pdb_stop
    /\ _namespace_stack = << "pdb1", "sigpdb1" >>
    /\ allow_kbdint["pdb1"]
    /\ interrupting["sigpdb1"]

\* C5: with no stop requested and an active session that does not allow
\* KeyboardInterrupt, the handler marks a session that is not interrupting
\* and raises nothing, and raises KeyboardInterrupt for a session that is
\* still interrupting.
C5_SecondInterruptRaises ==
    [][(/\ op'.name = "sigint"
        /\ ~_request_pdb_stop
        /\ ActiveSession # NoSession
        /\ ~allow_kbdint[ActiveSession]) =>
        IF interrupting[ActiveSession]
        THEN /\ raised' = "KeyboardInterrupt"
             /\ calls' = <<>>
        ELSE /\ raised' = NoException
             /\ interrupting'[ActiveSession]
             /\ calls' = <<Call("interrupt", ActiveSession, None)>>]_vars

\* The second signal for a session still interrupting has raised.
C5_Witness ==
    /\ op.name = "sigint"
    /\ raised = "KeyboardInterrupt"
    /\ ActiveSession # NoSession
    /\ interrupting[ActiveSession]
    /\ ~allow_kbdint[ActiveSession]

\* C6: with no stop requested and an active session that allows
\* KeyboardInterrupt, the handler raises KeyboardInterrupt, calls nothing
\* on the session and changes neither the stack nor any flag.
C6_AllowedInterruptRaisesAtOnce ==
    [][(/\ op'.name = "sigint"
        /\ ~_request_pdb_stop
        /\ ActiveSession # NoSession
        /\ allow_kbdint[ActiveSession]) =>
        /\ raised' = "KeyboardInterrupt"
        /\ calls' = <<>>
        /\ UNCHANGED ShellState]_vars

\* The handler has raised for a session that allows KeyboardInterrupt and
\* was not interrupting.
C6_Witness ==
    /\ op.name = "sigint"
    /\ raised = "KeyboardInterrupt"
    /\ ActiveSession # NoSession
    /\ allow_kbdint[ActiveSession]
    /\ ~interrupting[ActiveSession]

\* C7: with no stop requested and no debugger session on the stack the
\* handler raises KeyboardInterrupt exactly when _allow_kbdint is set and
\* changes nothing of the shell; _allow_kbdint is set only while a
\* run_code call is in progress, so that a signal taken while none is in
\* progress raises nothing.
C7_InterruptOnlyWhileRunning ==
    /\ [](_allow_kbdint => run_depth > 0)
    /\ [][(/\ op'.name = "sigint"
           /\ ~_request_pdb_stop
           /\ ActiveSession = NoSession) =>
           /\ raised' = "KeyboardInterrupt" <=> _allow_kbdint
           /\ run_depth = 0 => raised' = NoException
           /\ calls' = <<>>
           /\ UNCHANGED ShellState]_vars

\* A signal was swallowed while no code was running.
C7_Witness ==
    /\ op.name = "sigint"
    /\ raised = NoException
    /\ calls = <<>>
    /\ run_depth = 0
    /\ ActiveSession = NoSession
    /\ ~sigint_pending

\* C8: request_pdb_stop calls interrupt() once on an active session that
\* is not interrupting, setting no flag and sending no signal; changes
\* nothing for one that is interrupting; and with no session and the
\* shell's handler installed sets _request_pdb_stop first, the signal
\* still to be raised.
C8_RequestPdbStop ==
    [][op'.name = "request_pdb_stop" =>
        IF ActiveSession # NoSession
        THEN /\ IF interrupting[ActiveSession]
                THEN /\ calls' = <<>>
                     /\ UNCHANGED interrupting
                ELSE calls' = <<Call("interrupt", ActiveSession, None)>>
             /\ UNCHANGED <<_namespace_stack, __user_ns, _pdb_conf,
                            _request_pdb_stop, _allow_kbdint, curframe,
                            allow_kbdint, pdb_attrs, n_created,
                            sigint_pending, req_pc>>
        ELSE sigint_handler = "spyderkernel_sigint_handler" =>
             /\ _request_pdb_stop'
             /\ calls' = <<>>
             /\ UNCHANGED sigint_pending
             /\ req_pc' = "raise_interrupt_signal"]_vars

\* request_pdb_stop has interrupted the active session.
C8_Witness ==
    /\ op.name = "request_pdb_stop"
    /\ ActiveSession # NoSession
    /\ calls = <<Call("interrupt", ActiveSession, None)>>
    /\ interrupting[ActiveSession]
    /\ ~_request_pdb_stop
    /\ ~sigint_pending

\* C9: the active session holds the persisted value of every persisted
\* key; only keys of PDB_CONF_KEYS are ever stored or set on a session,
\* and set_pdb_configuration stores each such key it is given.
C9_ActiveSessionHoldsConfiguration ==
    /\ ActiveSession # NoSession =>
          \A key \in DOMAIN _pdb_conf :
             /\ key \in DOMAIN pdb_attrs[ActiveSession]
             /\ pdb_attrs[ActiveSession][key] = _pdb_conf[key]
    /\ DOMAIN _pdb_conf \subseteq PDB_CONF_KEYS
    /\ \A p \in AllPdbs : DOMAIN pdb_attrs[p] \subseteq PDB_CONF_KEYS
    /\ op.name = "set_pdb_configuration" =>
          \A key \in DOMAIN op.pdb_conf \cap PDB_CONF_KEYS :
             _pdb_conf[key] = op.pdb_conf[key]

\* A pop has made the first session active again under a configuration
\* that differs from what the popped session was last given.
C9_Witness ==
    /\ op.name = "remove_pdb_session"
    /\ op.arg = "pdb2"
    /\ _namespace_stack = << "pdb1" >>
    /\ DOMAIN _pdb_conf = {"breakpoints", "pdb_ignore_lib"}
    /\ pdb_attrs["pdb1"] = _pdb_conf
    /\ pdb_attrs["pdb2"] # _pdb_conf

\* C10: run_code sets _allow_kbdint on entry, nothing but the exit of a
\* run_code call clears it, and every exit clears it; a KeyboardInterrupt
\* of the base call ends in showtraceback() and is not raised further.
C10_RunCodeResetsAllowKbdint ==
    /\ [][op'.name = "run_code_enter" => _allow_kbdint']_vars
    /\ [][_allow_kbdint /\ ~_allow_kbdint' => op'.name = "run_code_exit"]_vars
    /\ [][op'.name = "run_code_exit" =>
           /\ ~_allow_kbdint'
           /\ op'.arg = "KeyboardInterrupt" =>
                 /\ raised' = NoException
                 /\ calls' = <<Call("showtraceback", None, None)>>
           /\ op'.arg = "return" =>
                 /\ raised' = NoException
                 /\ calls' = <<>>
           /\ op'.arg = "Exception" =>
                 /\ raised' = "Exception"
                 /\ calls' = <<>>]_vars

\* A run_code call has ended on a KeyboardInterrupt.
C10_Witness ==
    /\ op.name = "run_code_exit"
    /\ op.arg = "KeyboardInterrupt"
    /\ raised = NoException
    /\ calls = <<Call("showtraceback", None, None)>>
    /\ ~_allow_kbdint

\* C11: request_pdb_stop with no debugger session on the stack and a SIGINT
\* handler other than spyderkernel_sigint_handler installed sets no flag,
\* sends no signal and raises nothing: the shell, the sessions, the pending
\* signal and the installed handler stay as they were, and the one call made
\* is the logger's.
C11_RequestPdbStopForeignHandler ==
    [][(/\ op'.name = "request_pdb_stop"
        /\ ActiveSession = NoSession
        /\ sigint_handler # "spyderkernel_sigint_handler")
       => /\ raised' = NoException
          /\ calls' = <<Call("logger.debug", None, None)>>
          /\ UNCHANGED <<ShellState, sigint_handler, sigint_pending, req_pc,
                         run_depth>>]_vars

\* request_pdb_stop has run with no session under a foreign handler.
C11_Witness ==
    /\ op.name = "request_pdb_stop"
    /\ ActiveSession = NoSession
    /\ sigint_handler # "spyderkernel_sigint_handler"
    /\ calls = <<Call("logger.debug", None, None)>>
    /\ raised = NoException
    /\ ~_request_pdb_stop
    /\ ~sigint_pending
    /\ req_pc = "idle"

\* A line that starts with '%' or '!' immediately followed by the name of
\* a disabled package manager.
CallsPackageManager(line) ==
    \E j \in DOMAIN _disabled_pkg_managers :
        LET command == _disabled_pkg_managers[j] IN
        /\ Len(line) >= 1 + Len(command)
        /\ line[1] \in {"%", "!"}
        /\ \A k \in 1..Len(command) : line[k + 1] = command[k]

\* C12: when a line of the batch starts with '%' or '!' immediately followed
\* by conda, mamba, micromamba, pip, pixi or uv, _do_input_cleanup returns
\* exactly one line, the one that prints the fixed warning, and none of the
\* input lines; otherwise it returns the batch as it was given, the same
\* lines in the same order.
C12_InputCleanup ==
    op.name = "_do_input_cleanup" =>
        IF \E i \in DOMAIN io.lines : CallsPackageManager(io.lines[i])
        THEN /\ io.out = <<WarningLine>>
             /\ \A i \in DOMAIN io.lines, j \in DOMAIN io.out :
                   io.out[j] # io.lines[i]
        ELSE io.out = io.lines

\* A batch whose second line alone calls a package manager has been
\* replaced by the warning.
C12_Witness ==
    /\ op.name = "_do_input_cleanup"
    /\ Len(io.lines) = 2
    /\ ~CallsPackageManager(io.lines[1])
    /\ CallsPackageManager(io.lines[2])
    /\ io.out = <<WarningLine>>

\* A line that matches a file-location pattern and contains a package
\* install location.
IsHidden(line) ==
    /\ \/ MatchesVerboseFile(line)
       \/ MatchesPlainFile(line)
    /\ \E location \in _package_locations, k \in DOMAIN line :
          line[k] = location
IsShown(line) == ~IsHidden(line)

\* C13: _showtraceback passes to the base display exactly the input lines in
\* their order minus every line that both matches a file-location pattern
\* ('File ...' at the start of the line, or the ANSI-prefixed plain form)
\* and contains a package install location; a line that fails either
\* condition is kept.  For bdb.BdbQuit what is passed holds no text,
\* whatever the input lines are.
C13_ShowTraceback ==
    op.name = "_showtraceback" =>
        /\ calls = <<Call("super()._showtraceback", None, None)>>
        /\ IF io.etype = "BdbQuit"
           THEN /\ Len(io.out) <= 1
                /\ \A i \in DOMAIN io.out : io.out[i] = <<>>
           ELSE io.out = SelectSeq(io.lines, IsShown)

\* Of two lines that contain a package location the one that matches a
\* file-location pattern has been left out and the other one kept.
C13_Witness ==
    /\ op.name = "_showtraceback"
    /\ io.etype # "BdbQuit"
    /\ Len(io.lines) = 2
    /\ IsHidden(io.lines[1])
    /\ ContainsPackageLocation(io.lines[2])
    /\ io.out = <<io.lines[2]>>

\* The positions of the entries that can decide a namespace.
Deciding == StoppedPdbAt \cup ManagerAt

\* C14: user_ns is decided by the one top-most entry that is a debugger
\* session with a curframe or a namespace manager: whatever lies below it,
\* and every debugger session without a curframe above it, has no say; a
\* namespace manager gives its ns_globals and a stopped debugger the
\* globals of its frame.  While such an entry exists, a step that changes
\* neither the stack nor a curframe leaves user_ns as it was.
C14_InnermostWins ==
    /\ [](\A k \in Deciding :
            (\A j \in Deciding : j <= k) =>
                /\ k \in ManagerAt =>
                      user_ns = <<"ns_globals", _namespace_stack[k]>>
                /\ k \in StoppedPdbAt =>
                      user_ns = <<"f_globals", curframe[_namespace_stack[k]]>>)
    /\ [][(Deciding # {} /\ UNCHANGED <<_namespace_stack, curframe>>)
             => user_ns' = user_ns]_vars

\* A stopped debugger above a namespace manager and below a debugger
\* session without a frame decides, after the fallback was assigned.
C14_Witness ==
    /\ op.name = "set_user_ns"
    /\ Len(_namespace_stack) = 3
    /\ IsNamespaceManager(_namespace_stack[1])
    /\ 2 \in StoppedPdbAt
    /\ IsPdb(_namespace_stack[3]) /\ 3 \notin StoppedPdbAt
    /\ user_ns = <<"f_globals", curframe[_namespace_stack[2]]>>

\* remove_pdb_session(p) has run directly after add_pdb_session(p).
RemovedAfterAdd ==
    /\ op.name = "remove_pdb_session"
    /\ op.after_add # NoStack
BeforeAdd == op.after_add[1]

\* C15 as stated: add_pdb_session(p) directly followed by
\* remove_pdb_session(p) leaves the stack as it was before the add, for
\* every stack, the one where p is already the active session included.
C15_AddRemoveRestores ==
    RemovedAfterAdd => _namespace_stack = BeforeAdd

\* C15: add_pdb_session(p) directly followed by remove_pdb_session(p)
\* leaves the stack as it was before the add when p was not the active
\* session before the add; when it was, the add is skipped and the remove
\* pops the top entry, so the stack ends one entry shorter.
C15_AddRemoveRestoresUnlessActive ==
    RemovedAfterAdd =>
        IF pdb_session(BeforeAdd) # op.arg
        THEN _namespace_stack = BeforeAdd
        ELSE _namespace_stack = Pop(BeforeAdd)

\* A session that lay on the stack below the active one has been added
\* again and removed at once.
C15_Witness ==
    /\ RemovedAfterAdd
    /\ \E i \in DOMAIN BeforeAdd : BeforeAdd[i] = op.arg
    /\ pdb_session(BeforeAdd) # op.arg
    /\ _namespace_stack = BeforeAdd

\* The positions of the debugger sessions stopped in a frame.
StoppedIn(frame) ==
    {k \in StoppedPdbAt : curframe[_namespace_stack[k]] = frame}

\* C16: context_locals(frame) with a frame returns the curframe_locals of a
\* debugger session on the stack whose curframe is that frame, and the
\* frame's own f_locals when there is none: never the locals of a namespace
\* manager or of a debugger stopped in another frame.  context_locals()
\* returns the locals of the top-most entry that is a stopped debugger or a
\* namespace manager, and None when the stack has no such entry.
C16_ContextLocals ==
    /\ \A frame \in Frames :
          IF StoppedIn(frame) # {}
          THEN \E k \in StoppedIn(frame) :
                  context_locals(frame) =
                      <<"curframe_locals", _namespace_stack[k]>>
          ELSE context_locals(frame) = <<"f_locals", frame>>
    /\ context_locals(None) =
          IF Deciding = {} THEN NoLocals
          ELSE IF MaxOf(Deciding) \in ManagerAt
          THEN <<"ns_locals", _namespace_stack[MaxOf(Deciding)]>>
          ELSE <<"curframe_locals", _namespace_stack[MaxOf(Deciding)]>>

\* Under a namespace manager and a debugger stopped in another frame lies
\* the debugger stopped in the frame asked for.
C16_Witness ==
    /\ Len(_namespace_stack) = 3
    /\ StoppedIn("f1") = {1}
    /\ StoppedIn("f2") = {2}
    /\ 3 \in ManagerAt
    /\ context_locals("f1") = <<"curframe_locals", _namespace_stack[1]>>
    /\ context_locals("f2") = <<"curframe_locals", _namespace_stack[2]>>
    /\ context_locals(None) = <<"ns_locals", _namespace_stack[3]>>

\* C17 as stated: the mapping _get_current_namespace returns is the
\* globals (of the frame given, else user_ns) overlaid by the context
\* locals and, whenever with_magics is set, by the line magics and the cell
\* magics.
C17_MagicsWheneverAsked ==
    op.name = "_get_current_namespace" =>
        \A name \in {"run", "time"} :
            io.with_magics =>
                /\ name \in DOMAIN io.ns
                /\ io.ns[name] \in {LineMagics, CellMagics}

\* C18 as stated, for the handler that runs directly after request_pdb_stop
\* has raised its signal: the signal request_pdb_stop raises ends in a new
\* debugger session attached by the handler, never in a KeyboardInterrupt,
\* whatever requests, signals and handler runs came before.
C18_RequestedSignalStopsInDebugger ==
    [][(op.name = "request_pdb_stop_signal" /\ op'.name = "sigint")
       => /\ raised' # "KeyboardInterrupt"
          /\ Constructions(calls') # {}]_vars

\* C19: in every reachable state user_ns and context_locals() are taken
\* from the same stack entry: both from the frame of one stopped debugger
\* session, or both from one namespace manager, or user_ns is the fallback
\* namespace and context_locals() is None; context_locals() is None exactly
\* when user_ns is the fallback namespace.
C19_SameEntry ==
    /\ \/ \E k \in StoppedPdbAt :
             /\ user_ns = <<"f_globals", curframe[_namespace_stack[k]]>>
             /\ context_locals(None) =
                   <<"curframe_locals", _namespace_stack[k]>>
       \/ \E k \in ManagerAt :
             /\ user_ns = <<"ns_globals", _namespace_stack[k]>>
             /\ context_locals(None) = <<"ns_locals", _namespace_stack[k]>>
       \/ /\ user_ns = <<"user_ns", __user_ns>>
          /\ context_locals(None) = NoLocals
    /\ context_locals(None) = NoLocals <=> user_ns = <<"user_ns", __user_ns>>

\* A namespace manager above a stopped debugger and below a debugger
\* session without a frame gives both namespaces.
C19_Witness ==
    /\ Len(_namespace_stack) = 3
    /\ 1 \in StoppedPdbAt
    /\ 2 \in ManagerAt
    /\ IsPdb(_namespace_stack[3]) /\ 3 \notin StoppedPdbAt
    /\ user_ns = <<"ns_globals", _namespace_stack[2]>>
    /\ context_locals(None) = <<"ns_locals", _namespace_stack[2]>>

\* C20 as stated: while a run_code call is in progress _allow_kbdint is
\* set, also in an outer call whose nested call has returned.
C20_AllowKbdintWhileRunning ==
    run_depth > 0 => _allow_kbdint

====
